---- MODULE Spec2Model ----
(***************************************************************************)
(* Model of dnnbrain/utils/util.py: get_frame_time_info and gen_dmask.     *)
(*                                                                         *)
(* Python floats are modelled as binary floating-point numbers with Prec   *)
(* significant bits, round-to-nearest-even and an unbounded exponent: a    *)
(* value m * 2^e is the pair <<m, e>> with m odd (or <<0, 0>> for zero),   *)
(* so that two floats are equal exactly when their pairs are equal.  Every *)
(* arithmetic operation rounds its exact result, as IEEE-754 does.         *)
(***************************************************************************)
EXTENDS Integers, Sequences, FiniteSets, TLC

\* ------------------------------------------------------------------ bounds
Prec == 4            \* significant bits of the modelled float format
MaxFrames == 4       \* largest frame count a video reports
MaxInterval == 3     \* largest integer 'interval' argument tried
MaxLayers == 3       \* longest 'layers' list tried
MaxChannels == 3     \* longest 'channels' list tried

\* ------------------------------------------------------ float arithmetic
RECURSIVE Pow2(_)
Pow2(k) == IF k <= 0 THEN 1 ELSE 2 * Pow2(k - 1)

Abs(n) == IF n < 0 THEN -n ELSE n

RECURSIVE Norm(_, _)
\* canonical pair of the value m * 2^e
Norm(m, e) ==
    IF m = 0 THEN <<0, 0>>
    ELSE IF m % 2 = 0 THEN Norm(m \div 2, e + 1)
    ELSE <<m, e>>

RECURSIVE RoundPos(_, _, _)
\* the float nearest to (n / d) * 2^e for n > 0, d > 0, ties to even
RoundPos(n, d, e) ==
    IF n >= d * Pow2(Prec) THEN RoundPos(n, 2 * d, e + 1)
    ELSE IF n < d * Pow2(Prec - 1) THEN RoundPos(2 * n, d, e - 1)
    ELSE LET q == n \div d
             r == n % d
             m == IF 2 * r > d \/ (2 * r = d /\ q % 2 = 1) THEN q + 1 ELSE q
         IN  Norm(m, e)

\* the float nearest to the rational n / d (d > 0)
RoundRat(n, d) ==
    IF n = 0 THEN <<0, 0>>
    ELSE LET p == RoundPos(Abs(n), d, 0)
         IN  IF n < 0 THEN <<-p[1], p[2]>> ELSE p

\* the float nearest to the dyadic value n * 2^e
RoundDyadic(n, e) ==
    IF e >= 0 THEN RoundRat(n * Pow2(e), 1) ELSE RoundRat(n, Pow2(-e))

MinExp(x, y) == IF x[2] < y[2] THEN x[2] ELSE y[2]

\* the mantissa of x when written with exponent e <= x[2]
Scaled(x, e) == x[1] * Pow2(x[2] - e)

FromInt(i) == RoundRat(i, 1)

FAdd(x, y) == LET e == MinExp(x, y) IN RoundDyadic(Scaled(x, e) + Scaled(y, e), e)

FSub(x, y) == LET e == MinExp(x, y) IN RoundDyadic(Scaled(x, e) - Scaled(y, e), e)

FMul(x, y) == RoundDyadic(x[1] * y[1], x[2] + y[2])

\* x / y for y # 0
FDiv(x, y) ==
    LET e == MinExp(x, y)
        n == Scaled(x, e)
        d == Scaled(y, e)
    IN  IF d < 0 THEN RoundRat(-n, -d) ELSE RoundRat(n, d)

FLess(x, y) == LET e == MinExp(x, y) IN Scaled(x, e) < Scaled(y, e)

FZero == <<0, 0>>

FPos(x) == x[1] > 0


\* int(x): truncation toward zero
ToInt(x) ==
    IF x[2] >= 0 THEN x[1] * Pow2(x[2])
    ELSE IF x[1] < 0 THEN -(Abs(x[1]) \div Pow2(-x[2]))
    ELSE x[1] \div Pow2(-x[2])

\* --------------------------------------------------------- argument sets
None == [isNone |-> TRUE, v |-> <<>>]
Some(s) == [isNone |-> FALSE, v |-> s]

IntArg(i) == [isInt |-> TRUE, i |-> i, f |-> FromInt(i)]
\* a float argument; i is its integer part, which the code never reads
FloatArg(x) == [isInt |-> FALSE, i |-> ToInt(x), f |-> x]

IntervalArgs == {IntArg(i) : i \in -1..MaxInterval} \cup {FloatArg(RoundRat(5, 2))}
FpsValues == {FromInt(0), FromInt(1), FromInt(3), FromInt(5)}
OnsetValues == {FromInt(-2), FZero, FromInt(16)}
BeforeValues == {FromInt(-1), FZero, RoundRat(1, 2)}
AfterValues == {FromInt(-1), FZero, FromInt(1)}
Videos == [fps : FpsValues, frame_count : {FromInt(n) : n \in 0..MaxFrames}]

LayerNames == {"conv1", "conv2"}
ChannelNums == {3, 5}
SeqsUpTo(S, n) == UNION {[1..k -> S] : k \in 0..n}
LayersArgs == {None} \cup {Some(s) : s \in SeqsUpTo(LayerNames, MaxLayers)}
ChannelsArgs == {None} \cup {Some(s) : s \in SeqsUpTo(ChannelNums, MaxChannels)}
FileArgs == {None, Some(<<"a.dmask.csv">>)}

\* ------------------------------------------------------------------ state
VARIABLES
    pc,              \* the line about to execute, "idle" or "done"
    fn,              \* the function called
    out,             \* "none", "return" or the exception raised
    errLine,         \* source line of the raise / failed assert, 0 if none
    \* get_frame_time_info
    video,           \* what the video file holds: fps and frame count
    vidLog,          \* queries made on the video handle
    interval, original_onset, before_vid, after_vid,
    fps, n_frame, frame_nums, duration, durations, onsets,
    ret,             \* the returned triple
    \* gen_dmask
    layers, channels, dmask_file,
    n_layer,
    idx,             \* position of the running for loop
    dmask            \* the Mask: whether constructed, and the calls made on it

vars == <<pc, fn, out, errLine, video, vidLog, interval, original_onset,
          before_vid, after_vid, fps, n_frame, frame_nums, duration,
          durations, onsets, ret, layers, channels, dmask_file, n_layer,
          idx, dmask>>

gftiVars == <<video, vidLog, interval, original_onset, before_vid, after_vid,
              fps, n_frame, frame_nums, duration, durations, onsets, ret>>
dmaskVars == <<layers, channels, dmask_file, n_layer, dmask>>

NoRet == [frame_nums |-> <<>>, onsets |-> <<>>, durations |-> <<>>]
NoMask == [created |-> FALSE, calls |-> <<>>]

Init ==
    /\ pc = "idle" /\ fn = "none" /\ out = "none" /\ errLine = 0
    /\ video = [fps |-> FZero, frame_count |-> FZero]
    /\ vidLog = <<>>
    /\ interval = IntArg(1)
    /\ original_onset = FZero /\ before_vid = FZero /\ after_vid = FZero
    /\ fps = FZero /\ n_frame = 0 /\ frame_nums = <<>>
    /\ duration = FZero /\ durations = <<>> /\ onsets = <<>>
    /\ ret = NoRet
    /\ layers = None /\ channels = None /\ dmask_file = None
    /\ n_layer = 0 /\ idx = 0
    /\ dmask = NoMask

Raise(exc, line) == pc' = "done" /\ out' = exc /\ errLine' = line

Goto(l) == pc' = l /\ UNCHANGED <<out, errLine>>

\* ---------------------------------------------------- get_frame_time_info
\* mutation: the isinstance test is dropped
ValidIntervalNoTypeCheck(iv) == iv.i > 0

\* isinstance(interval, int) and interval > 0
ValidInterval(iv) == iv.isInt /\ iv.i > 0

\* mutation: the stop value is taken as inclusive
RangeInclusive(start, stop, step) ==
    LET n == IF start <= stop THEN (stop - start) \div step + 1 ELSE 0
    IN  [k \in 1..n |-> start + (k - 1) * step]

\* list(range(start, stop, step)) for step > 0
Range(start, stop, step) ==
    LET n == IF start < stop THEN (stop - start - 1) \div step + 1 ELSE 0
    IN  [k \in 1..n |-> start + (k - 1) * step]

\* 1 / fps * interval
Duration(f, iv) == FMul(FDiv(FromInt(1), f), iv.f)

\* [duration] * n
Repeat(d, n) == [k \in 1..n |-> d]

\* mutation: before_vid is subtracted
AdjustFirstSubtract(ds, b) == [ds EXCEPT ![1] = FSub(ds[1], b)]

\* durations[0] = durations[0] + before_vid
AdjustFirst(ds, b) == [ds EXCEPT ![1] = FAdd(ds[1], b)]

\* mutation: after_vid is added to the first element
AdjustLastAtFirst(ds, a) == [ds EXCEPT ![1] = FAdd(ds[1], a)]

\* durations[-1] = durations[-1] + after_vid
AdjustLast(ds, a) == [ds EXCEPT ![Len(ds)] = FAdd(ds[Len(ds)], a)]

\* mutation: every onset is counted from the first one
AppendOnsetFromFirst(ons, d) == Append(ons, FAdd(ons[1], d))

\* onsets.append(onsets[-1] + d)
AppendOnset(ons, d) == Append(ons, FAdd(ons[Len(ons)], d))

\* durations[:-1]
AllButLast(ds) == IF Len(ds) = 0 THEN <<>> ELSE SubSeq(ds, 1, Len(ds) - 1)

Call_get_frame_time_info ==
    /\ pc = "idle"
    /\ \E v \in Videos, iv \in IntervalArgs, o \in OnsetValues,
          b \in BeforeValues, a \in AfterValues :
          /\ video' = v
          /\ interval' = iv
          /\ original_onset' = o
          /\ before_vid' = b
          /\ after_vid' = a
    /\ fn' = "get_frame_time_info"
    /\ Goto("L27")
    /\ UNCHANGED <<vidLog, fps, n_frame, frame_nums, duration, durations,
                   onsets, ret, idx>>
    /\ UNCHANGED dmaskVars

\* line 27
AssertInterval ==
    /\ pc = "L27"
    /\ IF ValidInterval(interval) THEN Goto("L30")
                                  ELSE Raise("AssertionError", 27)
    /\ UNCHANGED <<fn, idx>> /\ UNCHANGED gftiVars /\ UNCHANGED dmaskVars

\* lines 30-32
LoadVideoInfo ==
    /\ pc = "L30"
    /\ vidLog' = vidLog \o <<"VideoCapture", "CAP_PROP_FPS", "CAP_PROP_FRAME_COUNT">>
    /\ fps' = video.fps
    /\ n_frame' = ToInt(video.frame_count)
    /\ Goto("L35")
    /\ UNCHANGED <<fn, idx, video, interval, original_onset, before_vid,
                   after_vid, frame_nums, duration, durations, onsets, ret>>
    /\ UNCHANGED dmaskVars

\* line 35
GenFrameNums ==
    /\ pc = "L35"
    /\ frame_nums' = Range(1, n_frame + 1, interval.i)
    /\ Goto("L38")
    /\ UNCHANGED <<fn, idx, video, vidLog, interval, original_onset, before_vid,
                   after_vid, fps, n_frame, duration, durations, onsets, ret>>
    /\ UNCHANGED dmaskVars

\* lines 38-39
GenDurations ==
    /\ pc = "L38"
    /\ IF fps = FZero
       THEN /\ Raise("ZeroDivisionError", 38)
            /\ UNCHANGED <<duration, durations>>
       ELSE /\ duration' = Duration(fps, interval)
            /\ durations' = Repeat(duration', Len(frame_nums))
            /\ Goto("L40")
    /\ UNCHANGED <<fn, idx, video, vidLog, interval, original_onset, before_vid,
                   after_vid, fps, n_frame, frame_nums, onsets, ret>>
    /\ UNCHANGED dmaskVars

\* line 40
AddBeforeVid ==
    /\ pc = "L40"
    /\ IF Len(durations) = 0
       THEN /\ Raise("IndexError", 40)
            /\ UNCHANGED durations
       ELSE /\ durations' = AdjustFirst(durations, before_vid)
            /\ Goto("L41")
    /\ UNCHANGED <<fn, idx, video, vidLog, interval, original_onset, before_vid,
                   after_vid, fps, n_frame, frame_nums, duration, onsets, ret>>
    /\ UNCHANGED dmaskVars

\* line 41
AddAfterVid ==
    /\ pc = "L41"
    /\ durations' = AdjustLast(durations, after_vid)
    /\ Goto("L44")
    /\ UNCHANGED <<fn, idx, video, vidLog, interval, original_onset, before_vid,
                   after_vid, fps, n_frame, frame_nums, duration, onsets, ret>>
    /\ UNCHANGED dmaskVars

\* line 44
InitOnsets ==
    /\ pc = "L44"
    /\ onsets' = <<original_onset>>
    /\ idx' = 1
    /\ Goto("L45")
    /\ UNCHANGED <<fn, video, vidLog, interval, original_onset, before_vid,
                   after_vid, fps, n_frame, frame_nums, duration, durations, ret>>
    /\ UNCHANGED dmaskVars

\* lines 45-46: one iteration of the loop over durations[:-1], or its exit
AccumulateOnsets ==
    /\ pc = "L45"
    /\ IF idx <= Len(AllButLast(durations))
       THEN /\ onsets' = AppendOnset(onsets, AllButLast(durations)[idx])
            /\ idx' = idx + 1
            /\ Goto("L45")
       ELSE /\ Goto("L48")
            /\ UNCHANGED <<onsets, idx>>
    /\ UNCHANGED <<fn, video, vidLog, interval, original_onset, before_vid,
                   after_vid, fps, n_frame, frame_nums, duration, durations, ret>>
    /\ UNCHANGED dmaskVars

\* line 48
ReturnSchedule ==
    /\ pc = "L48"
    /\ ret' = [frame_nums |-> frame_nums, onsets |-> onsets, durations |-> durations]
    /\ pc' = "done" /\ out' = "return" /\ UNCHANGED errLine
    /\ UNCHANGED <<fn, idx, video, vidLog, interval, original_onset, before_vid,
                   after_vid, fps, n_frame, frame_nums, duration, durations, onsets>>
    /\ UNCHANGED dmaskVars


\* ------------------------------------------------------------- gen_dmask
\* mutation: logical_or in place of logical_xor
AtLeastOne(l, f) == ~(l.isNone /\ f.isNone)

\* np.logical_xor(layers is None, dmask_file is None)
OneAndOnlyOne(l, f) == l.isNone # f.isNone

\* the 'channels' argument of Mask.set: left out, None, or a list
Omitted == [kind |-> "omitted", v |-> <<>>]
Passed(c) == IF c.isNone THEN [kind |-> "None", v |-> <<>>]
                         ELSE [kind |-> "list", v |-> c.v]

SetCall(layer, chn) == [op |-> "set", arg |-> layer, channels |-> chn]
LoadCall(file) == [op |-> "load", arg |-> file, channels |-> Omitted]

\* dmask.set(layers[0], channels)
SingleLayerCall(l, c) == SetCall(l.v[1], Passed(c))

\* dmask.set(layer) for the i-th layer
AllChannelsCall(l, i) == SetCall(l.v[i], Omitted)

\* mutation: the whole channels list is passed for every layer
PairedCallWholeList(l, c, i) == SetCall(l.v[i], Passed(c))

\* dmask.set(layer, [chn]) for the i-th pair of zip(layers, channels)
PairedCall(l, c, i) == SetCall(l.v[i], [kind |-> "list", v |-> <<c.v[i]>>])

\* mutation: a shorter channels list is accepted
SameLengthOrShorter(n, c) == Len(c.v) <= n

\* n_layer == len(channels)
SameLength(n, c) == n = Len(c.v)

Called(m, call) == [m EXCEPT !.calls = Append(@, call)]

Call_gen_dmask ==
    /\ pc = "idle"
    /\ \E l \in LayersArgs, c \in ChannelsArgs, f \in FileArgs :
          /\ layers' = l
          /\ channels' = c
          /\ dmask_file' = f
    /\ fn' = "gen_dmask"
    /\ Goto("L68")
    /\ UNCHANGED <<n_layer, idx, dmask>>
    /\ UNCHANGED gftiVars

\* lines 68-69
AssertOneAndOnlyOne ==
    /\ pc = "L68"
    /\ IF OneAndOnlyOne(layers, dmask_file) THEN Goto("L70")
                                            ELSE Raise("AssertionError", 68)
    /\ UNCHANGED <<fn, idx>> /\ UNCHANGED gftiVars /\ UNCHANGED dmaskVars

\* lines 70-71
AssertNoChannelsWithoutLayers ==
    /\ pc = "L70"
    /\ IF layers.isNone /\ ~channels.isNone THEN Raise("AssertionError", 71)
                                            ELSE Goto("L73")
    /\ UNCHANGED <<fn, idx>> /\ UNCHANGED gftiVars /\ UNCHANGED dmaskVars

\* lines 73-74
NewMask ==
    /\ pc = "L73"
    /\ dmask' = [created |-> TRUE, calls |-> <<>>]
    /\ IF layers.isNone THEN Goto("L76") ELSE Goto("L80")
    /\ UNCHANGED <<fn, idx, layers, channels, dmask_file, n_layer>>
    /\ UNCHANGED gftiVars

\* line 76: Mask.load either succeeds or raises, and its error propagates
LoadMask ==
    /\ pc = "L76"
    /\ dmask' = Called(dmask, LoadCall(dmask_file.v[1]))
    /\ \E ok \in BOOLEAN :
          IF ok THEN Goto("L98") ELSE Raise("LoadError", 76)
    /\ UNCHANGED <<fn, idx, layers, channels, dmask_file, n_layer>>
    /\ UNCHANGED gftiVars

\* line 80
CountLayers ==
    /\ pc = "L80"
    /\ n_layer' = Len(layers.v)
    /\ Goto("L81")
    /\ UNCHANGED <<fn, idx, layers, channels, dmask_file, dmask>>
    /\ UNCHANGED gftiVars

\* mutation: an empty layers list yields an empty mask
ReturnEmptyMask ==
    /\ pc = "L81"
    /\ n_layer = 0
    /\ Goto("L98")
    /\ UNCHANGED <<fn, idx>> /\ UNCHANGED gftiVars /\ UNCHANGED dmaskVars

\* lines 81-82
RaiseEmptyLayers ==
    /\ pc = "L81"
    /\ n_layer = 0
    /\ Raise("ValueError", 82)
    /\ UNCHANGED <<fn, idx>> /\ UNCHANGED gftiVars /\ UNCHANGED dmaskVars

\* lines 83-85
SetSingleLayer ==
    /\ pc = "L81"
    /\ n_layer = 1
    /\ dmask' = Called(dmask, SingleLayerCall(layers, channels))
    /\ Goto("L98")
    /\ UNCHANGED <<fn, idx, layers, channels, dmask_file, n_layer>>
    /\ UNCHANGED gftiVars

\* lines 86-87, 91, 95-97: the branch taken for several layers
SeveralLayers ==
    /\ pc = "L81"
    /\ n_layer > 1
    /\ IF channels.isNone THEN Goto("L89") /\ idx' = 1
       ELSE IF SameLength(n_layer, channels) THEN Goto("L93") /\ idx' = 1
       ELSE Raise("ValueError", 96) /\ UNCHANGED idx
    /\ UNCHANGED fn /\ UNCHANGED gftiVars /\ UNCHANGED dmaskVars

\* lines 89-90: one iteration of the loop over layers, or its exit
SetAllChannels ==
    /\ pc = "L89"
    /\ IF idx <= Len(layers.v)
       THEN /\ dmask' = Called(dmask, AllChannelsCall(layers, idx))
            /\ idx' = idx + 1
            /\ Goto("L89")
       ELSE /\ Goto("L98")
            /\ UNCHANGED <<dmask, idx>>
    /\ UNCHANGED <<fn, layers, channels, dmask_file, n_layer>>
    /\ UNCHANGED gftiVars

\* lines 93-94: one iteration of the loop over zip(layers, channels), or its exit
SetPairedChannels ==
    /\ pc = "L93"
    /\ IF idx <= Len(layers.v) /\ idx <= Len(channels.v)
       THEN /\ dmask' = Called(dmask, PairedCall(layers, channels, idx))
            /\ idx' = idx + 1
            /\ Goto("L93")
       ELSE /\ Goto("L98")
            /\ UNCHANGED <<dmask, idx>>
    /\ UNCHANGED <<fn, layers, channels, dmask_file, n_layer>>
    /\ UNCHANGED gftiVars

\* line 98
ReturnMask ==
    /\ pc = "L98"
    /\ pc' = "done" /\ out' = "return" /\ UNCHANGED errLine
    /\ UNCHANGED <<fn, idx>> /\ UNCHANGED gftiVars /\ UNCHANGED dmaskVars

\* ---------------------------------------------------------- specification
Next ==
    \/ Call_get_frame_time_info
    \/ AssertInterval
    \/ LoadVideoInfo
    \/ GenFrameNums
    \/ GenDurations
    \/ AddBeforeVid
    \/ AddAfterVid
    \/ InitOnsets
    \/ AccumulateOnsets
    \/ ReturnSchedule
    \/ Call_gen_dmask
    \/ AssertOneAndOnlyOne
    \/ AssertNoChannelsWithoutLayers
    \/ NewMask
    \/ LoadMask
    \/ CountLayers
    \/ RaiseEmptyLayers
    \/ SetSingleLayer
    \/ SeveralLayers
    \/ SetAllChannels
    \/ SetPairedChannels
    \/ ReturnMask

Spec == Init /\ [][Next]_vars

TypeOK ==
    /\ pc \in {"idle", "done", "L27", "L30", "L35", "L38", "L40", "L41", "L44",
               "L45", "L48", "L68", "L70", "L73", "L76", "L80", "L81", "L89",
               "L93", "L98"}
    /\ fn \in {"none", "get_frame_time_info", "gen_dmask"}
    /\ out \in {"none", "return", "AssertionError", "ValueError", "IndexError",
                "ZeroDivisionError", "LoadError"}


\* ----------------------------------------------------------- properties
Returned(f) == pc = "done" /\ fn = f /\ out = "return"

InFrameTime == fn = "get_frame_time_info"
InGenDmask == fn = "gen_dmask"

NotPositiveInteger(iv) == ~iv.isInt \/ iv.i < 1

FLeq(x, y) == ~FLess(y, x)

\* C1: for a positive integer interval, fps > 0 and a frame count >= 0,
\* get_frame_time_info returns three sequences of equal length.
C1_EqualLengths ==
    (pc = "done" /\ InFrameTime /\ interval.isInt /\ interval.i >= 1
        /\ FPos(video.fps) /\ ToInt(video.frame_count) >= 0)
    => /\ out = "return"
       /\ Len(ret.frame_nums) = Len(ret.onsets)
       /\ Len(ret.onsets) = Len(ret.durations)

\* C2: in the returned schedule onsets[0] is original_onset and each later
\* onset is the previous onset plus the previous (adjusted) duration.
C2_CumulativeTiming ==
    Returned("get_frame_time_info")
    => /\ Len(ret.onsets) >= 1
       /\ ret.onsets[1] = original_onset
       /\ \A i \in 1..(Len(ret.onsets) - 1) :
             ret.onsets[i + 1] = FAdd(ret.onsets[i], ret.durations[i])

C2_Witness ==
    /\ Returned("get_frame_time_info")
    /\ Len(ret.onsets) >= 3
    /\ FLess(original_onset, FZero)
    /\ before_vid # FZero

\* C3 as stated: with base_duration = interval / fps, subtracting it from the
\* first and last durations gives back before_vid and after_vid (their sum
\* for a single frame), and every other duration equals base_duration.
C3_ExactDifferences ==
    Returned("get_frame_time_info")
    => LET d == ret.durations
           n == Len(d)
           base == FDiv(interval.f, fps)
       IN  /\ n >= 2 => /\ FSub(d[1], base) = before_vid
                        /\ FSub(d[n], base) = after_vid
           /\ n = 1 => FSub(d[1], base) = FAdd(before_vid, after_vid)
           /\ \A i \in 2..(n - 1) : d[i] = base

\* C3 amended: with base_duration the computed product (1 / fps) * interval,
\* the first duration is the rounded sum base_duration + before_vid and the
\* last is the rounded sum base_duration + after_vid (for a single frame,
\* (base_duration + before_vid) + after_vid); every other one is base_duration.
C3_RoundedSums ==
    Returned("get_frame_time_info")
    => LET d == ret.durations
           n == Len(d)
           base == FMul(FDiv(FromInt(1), fps), FromInt(interval.i))
       IN  /\ n >= 2 => /\ d[1] = FAdd(base, before_vid)
                        /\ d[n] = FAdd(base, after_vid)
           /\ n = 1 => d[1] = FAdd(FAdd(base, before_vid), after_vid)
           /\ \A i \in 2..(n - 1) : d[i] = base

C3_Witness ==
    /\ Returned("get_frame_time_info")
    /\ Len(ret.durations) >= 3
    /\ before_vid # FZero
    /\ after_vid # FZero

\* C4: the returned frame_nums is exactly 1, 1+interval, 1+2*interval, ...
\* up to n_frame: it starts at 1, steps by interval, stays <= n_frame and
\* its last element is greater than n_frame - interval.
C4_FrameNums ==
    Returned("get_frame_time_info")
    => LET f == ret.frame_nums
           n == Len(f)
           total == ToInt(video.frame_count)
       IN  /\ n >= 1
           /\ f[1] = 1
           /\ \A i \in 1..(n - 1) : f[i + 1] - f[i] = interval.i
           /\ \A i \in 1..n : f[i] <= total
           /\ f[n] > total - interval.i
           /\ {f[i] : i \in 1..n} = {k \in 1..total : (k - 1) % interval.i = 0}

C4_Witness ==
    /\ Returned("get_frame_time_info")
    /\ interval.i >= 2
    /\ Len(ret.frame_nums) >= 2
    /\ ret.frame_nums[Len(ret.frame_nums)] < ToInt(video.frame_count)

\* C5: an interval that is not a positive integer fails at the assertion:
\* the video handle is never queried and no schedule is returned.
C5_InvalidInterval ==
    (InFrameTime /\ NotPositiveInteger(interval))
    => /\ pc \in {"L27", "done"}
       /\ vidLog = <<>>
       /\ ret = NoRet
       /\ pc = "done" => (out = "AssertionError" /\ errLine = 27)

C5_Witness ==
    /\ InFrameTime /\ pc = "done"
    /\ ~interval.isInt
    /\ out = "AssertionError"

\* C6: gen_dmask fails at the one-and-only-one check exactly when layers and
\* the mask file are both given or both left out, whatever channels is, and
\* then neither load nor set has been called.
C6_OneAndOnlyOne ==
    (InGenDmask /\ pc # "L68")
    => IF layers.isNone = dmask_file.isNone
       THEN /\ pc = "done"
            /\ out = "AssertionError" /\ errLine = 68
            /\ dmask.calls = <<>>
       ELSE ~(out = "AssertionError" /\ errLine = 68)

C6_Witness ==
    /\ InGenDmask /\ pc = "done"
    /\ ~layers.isNone /\ ~dmask_file.isNone /\ ~channels.isNone
    /\ out = "AssertionError"

\* the calls C7 expects on the mask
ExpectedCalls ==
    LET n == Len(layers.v) IN
    IF n = 1 THEN <<SetCall(layers.v[1], Passed(channels))>>
    ELSE IF channels.isNone THEN [i \in 1..n |-> SetCall(layers.v[i], Omitted)]
    ELSE [i \in 1..n |-> SetCall(layers.v[i], [kind |-> "list", v |-> <<channels.v[i]>>])]

\* C7: in list mode a successful call makes exactly these set calls, in list
\* order: one set(layers[0], channels) for one layer; one set(layer) per
\* layer for several layers without channels; one set(layers[i],
\* [channels[i]]) per position for several layers with as many channels.
\* load is never called.
C7_ListModeCalls ==
    (Returned("gen_dmask") /\ ~layers.isNone)
    => /\ Len(layers.v) >= 1
       /\ Len(layers.v) = 1 \/ channels.isNone \/ Len(channels.v) = Len(layers.v)
       /\ dmask.calls = ExpectedCalls
       /\ \A i \in 1..Len(dmask.calls) : dmask.calls[i].op # "load"

C7_Witness ==
    /\ Returned("gen_dmask")
    /\ ~layers.isNone /\ Len(layers.v) >= 2
    /\ ~channels.isNone
    /\ Len(dmask.calls) = Len(layers.v)

\* C8: two or more layers with a channels list of another length fail with
\* an invalid-argument error, and no set call is ever made on the mask.
C8_LengthMismatch ==
    (InGenDmask /\ ~layers.isNone /\ ~channels.isNone
        /\ Len(layers.v) >= 2 /\ Len(channels.v) # Len(layers.v))
    => /\ dmask.calls = <<>>
       /\ pc = "done" =>
             IF dmask_file.isNone THEN out = "ValueError" /\ errLine = 96
                                  ELSE out = "AssertionError" /\ errLine = 68

C8_Witness ==
    /\ InGenDmask /\ pc = "done"
    /\ ~layers.isNone /\ ~channels.isNone
    /\ Len(layers.v) = 3 /\ Len(channels.v) = 2
    /\ out = "ValueError" /\ errLine = 96
    /\ dmask.created

\* C9: an empty layers list without a mask file fails with an
\* invalid-argument error for every channels value; no mask is returned.
C9_EmptyLayers ==
    (InGenDmask /\ ~layers.isNone /\ Len(layers.v) = 0 /\ dmask_file.isNone)
    => /\ out # "return"
       /\ pc # "L98"
       /\ dmask.calls = <<>>
       /\ pc = "done" => (out = "ValueError" /\ errLine = 82)

C9_Witness ==
    /\ InGenDmask /\ pc = "done"
    /\ ~layers.isNone /\ Len(layers.v) = 0
    /\ ~channels.isNone /\ Len(channels.v) >= 1
    /\ out = "ValueError" /\ errLine = 82

FrameNumsIncreasing(f) ==
    /\ \A i \in 1..Len(f) : f[i] >= 1
    /\ \A i \in 1..(Len(f) - 1) : f[i] < f[i + 1]

\* C10 as stated: every returned schedule has positive, strictly increasing
\* frame numbers, strictly increasing onsets and positive durations.
C10_WellFormed ==
    Returned("get_frame_time_info")
    => /\ FrameNumsIncreasing(ret.frame_nums)
       /\ \A i \in 1..(Len(ret.onsets) - 1) : FLess(ret.onsets[i], ret.onsets[i + 1])
       /\ \A i \in 1..Len(ret.durations) : FPos(ret.durations[i])

\* C10 amended: when before_vid >= 0 and after_vid >= 0, every returned
\* schedule has positive, strictly increasing frame numbers, positive
\* durations and non-decreasing onsets.
C10_WellFormedNonNegative ==
    (Returned("get_frame_time_info") /\ FLeq(FZero, before_vid) /\ FLeq(FZero, after_vid))
    => /\ FrameNumsIncreasing(ret.frame_nums)
       /\ \A i \in 1..(Len(ret.onsets) - 1) : FLeq(ret.onsets[i], ret.onsets[i + 1])
       /\ \A i \in 1..Len(ret.durations) : FPos(ret.durations[i])

C10_Witness ==
    /\ Returned("get_frame_time_info")
    /\ FPos(before_vid) /\ FPos(after_vid)
    /\ Len(ret.onsets) >= 3
    /\ FLess(original_onset, FZero)

====
